---- MODULE Spec2Model ----
(***************************************************************************)
(* Survey configuration validation, submission-schema compilation and      *)
(* submission validation of app/validation.py.                             *)
(*                                                                         *)
(* Values are tagged tuples, one tag per Python type:                      *)
(*   <<"str", s>>  <<"bool", b>>  <<"int", n>>  <<"list", seq>>            *)
(*   <<"dict", seq of <<key, value>> >>   an insertion-ordered dict, as a  *)
(*                                        deserialised JSON object is      *)
(*   <<"map", f>>                         a dict that is only looked up by *)
(*                                        key (compiled schemas and        *)
(*                                        submissions)                     *)
(***************************************************************************)
EXTENDS Integers, Sequences, FiniteSets, TLC

VARIABLES pc, doc, cfgErrors, schema, submission, subErrors

vars == <<pc, doc, cfgErrors, schema, submission, subErrors>>

(***************************************************************************)
(* Bounds of the model.                                                    *)
(***************************************************************************)
MaxFields == 2
MaxOptions == 3
MaxChars == 5

(***************************************************************************)
(* Program constants.                                                      *)
(***************************************************************************)
TITLE_MAX_LENGTH == 100
DESCRIPTION_MAX_LENGTH == 1000
REGEX_MAX_LENGTH == 100
HINT_MAX_LENGTH == 100
NAME_MAX_LENGTH == 20

(***************************************************************************)
(* Python values.                                                          *)
(***************************************************************************)
S(s) == <<"str", s>>
B(b) == <<"bool", b>>
I(n) == <<"int", n>>
L(seq) == <<"list", seq>>
D(pairs) == <<"dict", pairs>>
M(f) == <<"map", f>>
Null == <<"null">>

IsStr(v) == v[1] = "str"
IsBool(v) == v[1] = "bool"
IsInt(v) == v[1] = "int"
IsList(v) == v[1] = "list"
IsDict(v) == v[1] = "dict"
IsMap(v) == v[1] = "map"

\* list(value.keys()): the keys in insertion order
Keys(v) == [i \in 1..Len(v[2]) |-> v[2][i][1]]

\* key in value.keys()
HasKey(v, k) == \E i \in 1..Len(v[2]) : v[2][i][1] = k

\* value[key]
Get(v, k) == v[2][CHOOSE i \in 1..Len(v[2]) : v[2][i][1] = k][2]

Range(seq) == {seq[i] : i \in 1..Len(seq)}

RECURSIVE Repeat(_, _)
Repeat(c, n) == IF n = 0 THEN "" ELSE c \o Repeat(c, n - 1)

Digits == <<"0", "1", "2", "3", "4", "5", "6", "7", "8", "9">>

\* str(n) for n >= 0
RECURSIVE DecStr(_)
DecStr(n) == IF n < 10 THEN Digits[n + 1]
             ELSE DecStr(n \div 10) \o Digits[(n % 10) + 1]

(***************************************************************************)
(* app.utils.isregex and re.match on the patterns of the model: "a*" and   *)
(* "b" compile, "(" does not.                                              *)
(***************************************************************************)
Patterns == {"a*", "b", "("}

IsRegex(p) == p \in {"a*", "b"}

\* re.match(pattern + '$', s) for the compiling patterns
RegexMatches(p, s) ==
    IF p = "a*" THEN s = Repeat("a", Len(s))
    ELSE IF p = "b" THEN s = "b"
    ELSE FALSE

(***************************************************************************)
(* ConfigurationValidator: custom type checks.                             *)
(***************************************************************************)
EMAIL_KEYS == <<"type", "title", "description", "regex", "hint">>
OPTION_KEYS == <<"type", "title", "description", "mandatory">>
RADIO_KEYS == <<"type", "title", "description", "fields">>

\* a variant of KeysMatch that compares only the leading keys
KeysMatchPrefix(value, keys) ==
    /\ Len(Keys(value)) >= Len(keys)
    /\ SubSeq(Keys(value), 1, Len(keys)) = keys

\* list(value.keys()) == keys
KeysMatch(value, keys) == Keys(value) = keys

TypeIs(v, name) == IsStr(v) /\ v[2] = name

BoundedStr(v, max) == IsStr(v) /\ Len(v[2]) <= max

ConfigValidateTypeEmail(value) ==
    /\ IsDict(value)
    /\ KeysMatch(value, EMAIL_KEYS)
    /\ TypeIs(Get(value, "type"), "email")
    /\ BoundedStr(Get(value, "title"), TITLE_MAX_LENGTH)
    /\ BoundedStr(Get(value, "description"), DESCRIPTION_MAX_LENGTH)
    /\ BoundedStr(Get(value, "regex"), REGEX_MAX_LENGTH)
    /\ IsRegex(Get(value, "regex")[2])
    /\ BoundedStr(Get(value, "hint"), HINT_MAX_LENGTH)

\* a variant of the option check that does not read the discriminant
ConfigValidateTypeOptionAnyType(value) ==
    /\ IsDict(value)
    /\ KeysMatch(value, OPTION_KEYS)
    /\ BoundedStr(Get(value, "title"), TITLE_MAX_LENGTH)
    /\ BoundedStr(Get(value, "description"), DESCRIPTION_MAX_LENGTH)
    /\ IsBool(Get(value, "mandatory"))

ConfigValidateTypeOption(value) ==
    /\ IsDict(value)
    /\ KeysMatch(value, OPTION_KEYS)
    /\ TypeIs(Get(value, "type"), "option")
    /\ BoundedStr(Get(value, "title"), TITLE_MAX_LENGTH)
    /\ BoundedStr(Get(value, "description"), DESCRIPTION_MAX_LENGTH)
    /\ IsBool(Get(value, "mandatory"))

\* a variant of the radio check that does not descend into the subfields
ConfigValidateTypeRadioShallow(value) ==
    /\ IsDict(value)
    /\ KeysMatch(value, RADIO_KEYS)
    /\ TypeIs(Get(value, "type"), "radio")
    /\ BoundedStr(Get(value, "title"), TITLE_MAX_LENGTH)
    /\ BoundedStr(Get(value, "description"), DESCRIPTION_MAX_LENGTH)
    /\ IsList(Get(value, "fields"))

ConfigValidateTypeRadio(value) ==
    /\ IsDict(value)
    /\ KeysMatch(value, RADIO_KEYS)
    /\ TypeIs(Get(value, "type"), "radio")
    /\ BoundedStr(Get(value, "title"), TITLE_MAX_LENGTH)
    /\ BoundedStr(Get(value, "description"), DESCRIPTION_MAX_LENGTH)
    /\ IsList(Get(value, "fields"))
    /\ \A j \in 1..Len(Get(value, "fields")[2]) :
           ConfigValidateTypeOption(Get(value, "fields")[2][j])

\* 'schema': {'type': ['email', 'option', 'radio']}: one of the types matches
TopLevelTypes == {"email", "option", "radio"}

ConfigTypeMatches(name, value) ==
    CASE name = "email" -> ConfigValidateTypeEmail(value)
      [] name = "option" -> ConfigValidateTypeOption(value)
      [] name = "radio" -> ConfigValidateTypeRadio(value)

FieldTypeOK(value) == \E name \in TopLevelTypes : ConfigTypeMatches(name, value)

(***************************************************************************)
(* ConfigurationValidator.SCHEMA under cerberus with require_all=True.     *)
(* An error is <<path, rule>>: the path of the offending value in the      *)
(* document (list items by 0-based index) and the rule that failed.  A     *)
(* failed type rule drops the remaining rules of its field.                *)
(***************************************************************************)
SCHEMA_KEYS == {"admin_name", "survey_name", "title", "description",
                "start", "end", "mode", "fields"}

Err(path, rule) == <<path, rule>>

ErrIf(cond, path, rule) == IF cond THEN {Err(path, rule)} ELSE {}

\* {'type': 'string', 'minlength': min, 'maxlength': max}
StringRules(path, v, min, max) ==
    IF ~IsStr(v) THEN {Err(path, "type")}
    ELSE ErrIf(Len(v[2]) < min, path, "minlength")
         \cup ErrIf(Len(v[2]) > max, path, "maxlength")

\* {'type': 'integer', 'min': 0}
NonNegativeRules(path, v) ==
    IF ~IsInt(v) THEN {Err(path, "type")}
    ELSE IF v[2] < 0 THEN {Err(path, "min")} ELSE {}

\* {'type': 'integer', 'allowed': [0, 1, 2]}
ModeRules(path, v) ==
    IF ~IsInt(v) THEN {Err(path, "type")}
    ELSE IF v[2] \notin {0, 1, 2} THEN {Err(path, "allowed")} ELSE {}

\* {'type': 'list', 'schema': {'type': ['email', 'option', 'radio']}}
FieldsRules(path, v) ==
    IF ~IsList(v) THEN {Err(path, "type")}
    ELSE {Err(path \o <<i - 1>>, "type") :
              i \in {j \in 1..Len(v[2]) : ~FieldTypeOK(v[2][j])}}

KeyRules(k, v) ==
    CASE k \in {"admin_name", "survey_name"} -> StringRules(<<k>>, v, 1, NAME_MAX_LENGTH)
      [] k = "title" -> StringRules(<<k>>, v, 0, TITLE_MAX_LENGTH)
      [] k = "description" -> StringRules(<<k>>, v, 0, DESCRIPTION_MAX_LENGTH)
      [] k \in {"start", "end"} -> NonNegativeRules(<<k>>, v)
      [] k = "mode" -> ModeRules(<<k>>, v)
      [] k = "fields" -> FieldsRules(<<k>>, v)

\* ConfigurationValidator.create().validate(document); errors
ValidateConfiguration(document) ==
    {Err(<<k>>, "required") : k \in {x \in SCHEMA_KEYS : ~HasKey(document, x)}}
    \cup {Err(<<k>>, "unknown") : k \in Range(Keys(document)) \ SCHEMA_KEYS}
    \cup UNION {KeyRules(k, Get(document, k)) :
                   k \in Range(Keys(document)) \cap SCHEMA_KEYS}

(***************************************************************************)
(* SubmissionValidator._generate_schema.  The compiled schema is a map     *)
(* from str(i+1) to the record of the i-th field; a record is a map from   *)
(* 'type', 'schema' and the rule names to values.  Indexing a field that   *)
(* is no dict, has no 'type' or whose 'fields' cannot be enumerated into   *)
(* dicts raises.                                                           *)
(***************************************************************************)
RULES == {"min_chars", "max_chars", "min_select", "max_select",
          "mandatory", "regex"}

Raised == <<"raised">>

\* enumerate(x) yields nothing for an empty list, str or dict
Enumerable(v) == IsList(v) \/ ((IsStr(v) \/ IsDict(v)) /\ Len(v[2]) = 0)

Items(v) == IF IsList(v) THEN v[2] ELSE <<>>

RECURSIVE CanGenerate(_)
CanGenerate(field) ==
    /\ IsDict(field)
    /\ HasKey(field, "type")
    /\ HasKey(field, "fields") =>
           /\ Enumerable(Get(field, "fields"))
           /\ \A j \in 1..Len(Items(Get(field, "fields"))) :
                  CanGenerate(Items(Get(field, "fields"))[j])

\* str(i+1) for the i-th element (0-based) of enumerate(...)
\* a variant numbering the fields from 0
FieldKeyZeroBased(i) == DecStr(i - 1)

\* the key of the i-th field, i counted from 1
FieldKey(i) == DecStr(i)

\* a variant of the rule list without 'mandatory'
RuleNamesWithoutMandatory == RULES \ {"mandatory"}

RuleNames == RULES

RECURSIVE GenerateFieldSchema(_)
RECURSIVE SchemaOf(_)
GenerateFieldSchema(field) ==
    LET ks == {"type"}
              \cup (IF HasKey(field, "fields") THEN {"schema"} ELSE {})
              \cup {r \in RuleNames : HasKey(field, r)}
    IN  [k \in ks |-> IF k = "schema"
                      THEN M(SchemaOf(Items(Get(field, "fields"))))
                      ELSE Get(field, k)]

SchemaOf(fields) ==
    [k \in {FieldKey(i) : i \in 1..Len(fields)} |->
        GenerateFieldSchema(fields[CHOOSE i \in 1..Len(fields) : FieldKey(i) = k])]

GenerateSchema(configuration) ==
    IF /\ IsDict(configuration)
       /\ HasKey(configuration, "fields")
       /\ Enumerable(Get(configuration, "fields"))
       /\ \A j \in 1..Len(Items(Get(configuration, "fields"))) :
              CanGenerate(Items(Get(configuration, "fields"))[j])
    THEN M(SchemaOf(Items(Get(configuration, "fields"))))
    ELSE Raised

(***************************************************************************)
(* SubmissionValidator under cerberus with require_all=True.               *)
(* SubmissionValidator.create raises SchemaError for a schema with a type  *)
(* outside types_mapping and the _validate_type_* methods, or with a rule  *)
(* argument of the wrong type.                                             *)
(***************************************************************************)
SUBMISSION_TYPES == {"email", "option", "text", "selection", "radio"}

RuleArgumentOK(rule, arg) ==
    CASE rule \in {"min_chars", "max_chars", "min_select", "max_select"} -> IsInt(arg)
      [] rule = "mandatory" -> IsBool(arg)
      [] rule = "regex" -> IsStr(arg)
      [] rule = "type" -> IsStr(arg) /\ arg[2] \in SUBMISSION_TYPES
      [] OTHER -> TRUE

RECURSIVE SchemaOK(_)
SchemaOK(sch) ==
    \A k \in DOMAIN sch :
        /\ \A rule \in DOMAIN sch[k] \ {"schema"} : RuleArgumentOK(rule, sch[k][rule])
        /\ "schema" \in DOMAIN sch[k] => SchemaOK(sch[k]["schema"][2])

\* sum(value.values()) over booleans
CountSelections(value) == Cardinality({k \in DOMAIN value[2] : value[2][k] = B(TRUE)})

SubValidateTypeSelection(value) ==
    /\ IsMap(value)
    /\ \A k \in DOMAIN value[2] : IsBool(value[2][k])

\* a variant of the radio type check that accepts any number of selections
SubValidateTypeRadioAnyCount(value) == SubValidateTypeSelection(value)

SubValidateTypeRadio(value) ==
    /\ SubValidateTypeSelection(value)
    /\ CountSelections(value) = 1

SubTypeOK(name, value) ==
    CASE name = "email" -> IsStr(value)
      [] name = "option" -> IsBool(value)
      [] name = "text" -> IsStr(value)
      [] name = "selection" -> SubValidateTypeSelection(value)
      [] name = "radio" -> SubValidateTypeRadio(value)

\* len(value)
PyLen(value) == IF IsStr(value) THEN Len(value[2]) ELSE Cardinality(DOMAIN value[2])

Has(fs, rule) == rule \in DOMAIN fs

\* a rule of the field raises instead of reporting: len() of a bool,
\* .values() of a non-dict, re.compile of a pattern that does not compile
RECURSIVE FieldRaises(_, _)
RECURSIVE MappingRaises(_, _)
FieldRaises(fs, value) ==
    /\ SubTypeOK(fs["type"][2], value)
    /\ \/ (Has(fs, "min_chars") \/ Has(fs, "max_chars")) /\ ~(IsStr(value) \/ IsMap(value))
       \/ (Has(fs, "min_select") \/ Has(fs, "max_select")) /\ ~IsMap(value)
       \/ Has(fs, "regex") /\ IsStr(value) /\ ~IsRegex(fs["regex"][2])
       \/ Has(fs, "schema") /\ IsMap(value) /\ MappingRaises(fs["schema"][2], value[2])

MappingRaises(sch, document) ==
    \E k \in DOMAIN sch \cap DOMAIN document : FieldRaises(sch[k], document[k])

\* a variant of _validate_min_chars with the comparison not strict
MinCharsViolatedNonStrict(min_chars, value) == PyLen(value) <= min_chars

MinCharsViolated(min_chars, value) == PyLen(value) < min_chars

MaxCharsViolated(max_chars, value) == PyLen(value) > max_chars

\* a variant of _validate_min_select with the comparison not strict
MinSelectViolatedNonStrict(min_select, value) == CountSelections(value) <= min_select

MinSelectViolated(min_select, value) == CountSelections(value) < min_select

MaxSelectViolated(max_select, value) == CountSelections(value) > max_select

\* a variant of _validate_mandatory that does not read the rule's argument
MandatoryViolatedAnyFlag(mandatory, value) ==
    \/ IsBool(value) /\ ~value[2]
    \/ IsStr(value) /\ value[2] = ""

MandatoryViolated(mandatory, value) ==
    /\ mandatory
    /\ \/ IsBool(value) /\ ~value[2]
       \/ IsStr(value) /\ value[2] = ""

RECURSIVE FieldErrors(_, _, _)
RECURSIVE MappingErrors(_, _, _)
FieldErrors(fs, value, path) ==
    IF ~SubTypeOK(fs["type"][2], value) THEN {Err(path, "type")}
    ELSE (IF Has(fs, "schema") /\ IsMap(value)
          THEN MappingErrors(fs["schema"][2], value[2], path) ELSE {})
         \cup ErrIf(Has(fs, "min_chars") /\ MinCharsViolated(fs["min_chars"][2], value),
                    path, "min_chars")
         \cup ErrIf(Has(fs, "max_chars") /\ MaxCharsViolated(fs["max_chars"][2], value),
                    path, "max_chars")
         \cup ErrIf(Has(fs, "min_select") /\ MinSelectViolated(fs["min_select"][2], value),
                    path, "min_select")
         \cup ErrIf(Has(fs, "max_select") /\ MaxSelectViolated(fs["max_select"][2], value),
                    path, "max_select")
         \cup ErrIf(Has(fs, "mandatory") /\ MandatoryViolated(fs["mandatory"][2], value),
                    path, "mandatory")
         \cup ErrIf(Has(fs, "regex") /\ IsStr(value)
                        /\ ~RegexMatches(fs["regex"][2], value[2]),
                    path, "regex")

MappingErrors(sch, document, path) ==
    {Err(path \o <<k>>, "required") : k \in DOMAIN sch \ DOMAIN document}
    \cup {Err(path \o <<k>>, "unknown") : k \in DOMAIN document \ DOMAIN sch}
    \cup UNION {FieldErrors(sch[k], document[k], path \o <<k>>) :
                   k \in DOMAIN sch \cap DOMAIN document}

\* SubmissionValidator(schema, require_all=True).validate(document); errors
ValidateSubmission(sch, document) == MappingErrors(sch, document, <<>>)

(***************************************************************************)
(* The documents the model feeds to the validators.                        *)
(***************************************************************************)
Pair(k, v) == <<k, v>>

Email(regex) ==
    D(<<Pair("type", S("email")), Pair("title", S("T")), Pair("description", S("D")),
        Pair("regex", S(regex)), Pair("hint", S("H"))>>)

Option(title, mandatory) ==
    D(<<Pair("type", S("option")), Pair("title", S(title)), Pair("description", S("")),
        Pair("mandatory", B(mandatory))>>)

Radio(fields) ==
    D(<<Pair("type", S("radio")), Pair("title", S("T")), Pair("description", S("D")),
        Pair("fields", L(fields))>>)

Selection(min_select, max_select, fields) ==
    D(<<Pair("type", S("selection")), Pair("title", S("T")), Pair("description", S("D")),
        Pair("min_select", I(min_select)), Pair("max_select", I(max_select)),
        Pair("fields", L(fields))>>)

Text(min_chars, max_chars) ==
    D(<<Pair("type", S("text")), Pair("title", S("T")), Pair("description", S("D")),
        Pair("min_chars", I(min_chars)), Pair("max_chars", I(max_chars))>>)

Letters == <<"A", "B", "C", "D", "E", "F">>

OptionTitle(i) == IF i <= Len(Letters) THEN Letters[i] ELSE "O" \o DecStr(i)

\* the options titled A, B, ... with the given mandatory flags
OptionList(flags) == [i \in 1..Len(flags) |-> Option(OptionTitle(i), flags[i])]

FlagSeqs(n) == UNION {[1..k -> BOOLEAN] : k \in 0..n}

SeqsUpTo(set, n) == UNION {[1..k -> set] : k \in 0..n}

\* edits of an insertion-ordered dict
RemoveAt(d, i) == D(SubSeq(d[2], 1, i - 1) \o SubSeq(d[2], i + 1, Len(d[2])))

InsertAt(d, i, pair) == D(SubSeq(d[2], 1, i) \o <<pair>> \o SubSeq(d[2], i + 1, Len(d[2])))

Permute(d, p) == D([i \in 1..Len(d[2]) |-> d[2][p[i]]])

SetKey(d, k, v) ==
    D([i \in 1..Len(d[2]) |-> IF d[2][i][1] = k THEN Pair(k, v) ELSE d[2][i]])

Perms(n) == {p \in [1..n -> 1..n] : \A i, j \in 1..n : p[i] = p[j] => i = j}

IdPerm(n) == [i \in 1..n |-> i]

\* a well-typed value for each key a field object may carry
SampleValue(k) ==
    CASE k = "regex" -> S("a*")
      [] k = "hint" -> S("H")
      [] k = "mandatory" -> B(TRUE)
      [] k = "fields" -> L(<<>>)
      [] k \in {"min_select", "min_chars"} -> I(0)
      [] k \in {"max_select", "max_chars"} -> I(1)
      [] OTHER -> S("x")

AllKeys == {"type", "title", "description", "regex", "hint", "mandatory", "fields",
            "min_select", "max_select", "min_chars", "max_chars", "extra"}

\* the field objects the configuration validator accepts
GoodFields ==
    {Email(r) : r \in {"a*", "b"}}
    \cup {Option("A", m) : m \in BOOLEAN}
    \cup {Radio(OptionList(f)) : f \in FlagSeqs(MaxOptions)}

\* one key removed
Removals(f) == {RemoveAt(f, i) : i \in 1..Len(f[2])}

\* one key outside the object's own keys added, at any position
Additions(f) ==
    {InsertAt(f, i, Pair(k, SampleValue(k))) :
        i \in 0..Len(f[2]), k \in AllKeys \ Range(Keys(f))}

\* the keys in another order
KeyOrders(f) == {Permute(f, p) : p \in Perms(Len(f[2])) \ {IdPerm(Len(f[2]))}}

\* a value of the wrong type or out of range, or an unknown discriminant
BadValues ==
    {Email("("),
     SetKey(Option("A", FALSE), "mandatory", S("yes")),
     SetKey(Option("A", FALSE), "title", S(Repeat("x", TITLE_MAX_LENGTH + 1))),
     SetKey(Option("A", FALSE), "type", S("checkbox")),
     SetKey(Option("A", FALSE), "type", I(1)),
     SetKey(Radio(<<>>), "fields", S("AB")),
     SetKey(Email("b"), "hint", S(Repeat("x", HINT_MAX_LENGTH + 1)))}

Texts == {Text(mn, mx) : mn \in 0..MaxChars, mx \in 0..MaxChars}

Selections ==
    {Selection(mn, mx, OptionList(f)) :
        mn \in 0..MaxOptions, mx \in 0..MaxOptions, f \in FlagSeqs(MaxOptions)}

\* what a Radio may be given as a subfield besides a well-formed Option
BadSubfields ==
    {RemoveAt(Option("A", FALSE), 1),
     RemoveAt(Option("A", FALSE), 4),
     Permute(Option("A", FALSE), <<2, 1, 3, 4>>),
     InsertAt(Option("A", TRUE), 4, Pair("hint", S("H"))),
     Text(2, 5),
     Selection(1, 2, OptionList(<<FALSE, FALSE>>))}

Subfields == {Option("A", FALSE), Option("B", TRUE)} \cup BadSubfields

NestedRadios ==
    {Radio(fs) : fs \in SeqsUpTo(Subfields, MaxFields) \ {<<>>}}
    \cup {Radio(<<g>>) : g \in UNION {KeyOrders(Option("A", m)) : m \in BOOLEAN}}

\* field lists of one element: every shape above
SingleFields ==
    GoodFields
    \cup UNION {Removals(f) \cup Additions(f) \cup KeyOrders(f) : f \in GoodFields}
    \cup BadValues \cup Texts \cup Selections \cup NestedRadios

\* the elements of the longer field lists
SmallFields ==
    {Email("a*"), Option("A", TRUE), Radio(OptionList(<<FALSE, FALSE>>)),
     RemoveAt(Option("A", FALSE), 4), Radio(<<Text(2, 5)>>)}

FieldLists ==
    {<<>>} \cup {<<f>> : f \in SingleFields}
    \cup (SeqsUpTo(SmallFields, MaxFields) \ SeqsUpTo(SmallFields, 1))

Configuration(fields) ==
    D(<<Pair("admin_name", S("admin")), Pair("survey_name", S("survey")),
        Pair("title", S("T")), Pair("description", S("D")),
        Pair("start", I(0)), Pair("end", I(1)), Pair("mode", I(0)),
        Pair("fields", fields)>>)

\* documents that differ from a valid one outside the field list
BadConfigurations ==
    LET c == Configuration(L(<<Option("A", FALSE)>>))
    IN  {SetKey(c, "mode", I(3)), SetKey(c, "mode", B(TRUE)),
         SetKey(c, "admin_name", S("")),
         SetKey(c, "survey_name", S(Repeat("x", NAME_MAX_LENGTH + 1))),
         SetKey(c, "start", I(-1)), SetKey(c, "fields", S("")),
         SetKey(c, "fields", I(1)),
         RemoveAt(c, 3), RemoveAt(c, 8),
         InsertAt(c, 8, Pair("extra", S("x"))),
         Permute(c, <<8, 7, 6, 5, 4, 3, 2, 1>>)}

Configurations == {Configuration(L(fs)) : fs \in FieldLists} \cup BadConfigurations

(***************************************************************************)
(* The submissions the model feeds to a compiled schema.                   *)
(***************************************************************************)
BoolMaps(keys) == [keys -> {B(TRUE), B(FALSE)}]

\* mappings for a Radio or Selection with the given subfield keys: every
\* assignment of booleans, one entry not a boolean, one key missing, one
\* key unknown
MappingValues(keys) ==
    {M(g) : g \in BoolMaps(keys)}
    \cup {M([g EXCEPT ![k] = S("x")]) : g \in BoolMaps(keys), k \in keys}
    \cup {M([j \in keys \ {k} |-> B(j = FieldKey(1))]) : k \in keys}
    \cup {M([j \in keys \cup {"0"} |-> B(j = FieldKey(1))])}

Strings == {Repeat("a", n) : n \in 0..MaxChars + 1} \cup {"b", "ab"}

ValuesFor(fs) ==
    LET type == fs["type"][2]
    IN  CASE type = "option" -> {B(TRUE), B(FALSE), S(""), S("x")}
          [] type = "email" -> {S(""), S("a"), S("aa"), S("b"), S("ab"), B(FALSE)}
          [] type = "text" -> {S(s) : s \in Strings} \cup {B(TRUE)}
          [] type \in {"radio", "selection"} ->
                 {B(TRUE)} \cup
                 MappingValues(IF Has(fs, "schema") THEN DOMAIN fs["schema"][2] ELSE {})

Submissions(sch) ==
    LET full == {g \in [DOMAIN sch -> UNION {ValuesFor(sch[k]) : k \in DOMAIN sch}] :
                    \A k \in DOMAIN sch : g[k] \in ValuesFor(sch[k])}
    IN  full
        \cup {[j \in DOMAIN sch \ {k} |-> g[j]] : g \in full, k \in DOMAIN sch}
        \cup {[j \in DOMAIN sch \cup {"0"} |-> IF j = "0" THEN B(TRUE) ELSE g[j]] : g \in full}

(***************************************************************************)
(* The pipeline: a document is validated, compiled, and a submission is    *)
(* validated against the compiled schema.  The compiler does not check     *)
(* that the document was accepted.                                         *)
(***************************************************************************)
Init ==
    /\ pc = "idle"
    /\ doc = Null
    /\ cfgErrors = {}
    /\ schema = Null
    /\ submission = Null
    /\ subErrors = {}

ValidateConfigurationStep ==
    /\ pc = "idle"
    /\ \E c \in Configurations :
           /\ doc' = c
           /\ cfgErrors' = ValidateConfiguration(c)
    /\ pc' = "validated"
    /\ UNCHANGED <<schema, submission, subErrors>>

GenerateSchemaStep ==
    /\ pc = "validated"
    /\ GenerateSchema(doc) # Raised
    /\ schema' = GenerateSchema(doc)
    /\ pc' = "compiled"
    /\ UNCHANGED <<doc, cfgErrors, submission, subErrors>>

GenerateSchemaRaises ==
    /\ pc = "validated"
    /\ GenerateSchema(doc) = Raised
    /\ pc' = "raised"
    /\ UNCHANGED <<doc, cfgErrors, schema, submission, subErrors>>

CreateRaises ==
    /\ pc = "compiled"
    /\ ~SchemaOK(schema[2])
    /\ pc' = "raised"
    /\ UNCHANGED <<doc, cfgErrors, schema, submission, subErrors>>

ValidateSubmissionStep ==
    /\ pc = "compiled"
    /\ SchemaOK(schema[2])
    /\ \E s \in Submissions(schema[2]) :
           /\ ~MappingRaises(schema[2], s)
           /\ submission' = M(s)
           /\ subErrors' = ValidateSubmission(schema[2], s)
    /\ pc' = "submitted"
    /\ UNCHANGED <<doc, cfgErrors, schema>>

ValidateSubmissionRaises ==
    /\ pc = "compiled"
    /\ SchemaOK(schema[2])
    /\ \E s \in Submissions(schema[2]) :
           /\ MappingRaises(schema[2], s)
           /\ submission' = M(s)
    /\ pc' = "raised"
    /\ UNCHANGED <<doc, cfgErrors, schema, subErrors>>

Next ==
    \/ ValidateConfigurationStep
    \/ GenerateSchemaStep
    \/ GenerateSchemaRaises
    \/ CreateRaises
    \/ ValidateSubmissionStep
    \/ ValidateSubmissionRaises

Spec == Init /\ [][Next]_vars

(***************************************************************************)
(* Vocabulary of the properties.                                           *)
(***************************************************************************)
Accepted == cfgErrors = {}

HasFieldList == IsDict(doc) /\ HasKey(doc, "fields") /\ IsList(Get(doc, "fields"))

DocFields == Get(doc, "fields")[2]

FieldIndexes == IF HasFieldList THEN 1..Len(DocFields) ELSE {}

\* the configuration validator reports the i-th element of the field list
FieldRejected(i) == Err(<<"fields", i - 1>>, "type") \in cfgErrors

\* the errors reported at the path or below it
ErrorsUnder(errs, prefix) ==
    {e \in errs : /\ Len(e[1]) >= Len(prefix)
                  /\ SubSeq(e[1], 1, Len(prefix)) = prefix}

ErrorPaths(errs) == {e[1] : e \in errs}

\* the submission key of the i-th element of a field list: "1", "2", ...
KeyOf(i) == DecStr(i)

KindOf(f) == IF IsDict(f) /\ HasKey(f, "type") /\ IsStr(Get(f, "type"))
             THEN Get(f, "type")[2] ELSE "none"

\* the value submitted for the i-th field gives a boolean for each of the
\* n subfield keys and nothing else
FullBoolMapping(i, n) ==
    /\ KeyOf(i) \in DOMAIN submission[2]
    /\ IsMap(submission[2][KeyOf(i)])
    /\ DOMAIN submission[2][KeyOf(i)][2] = {KeyOf(j) : j \in 1..n}
    /\ \A j \in 1..n : IsBool(submission[2][KeyOf(i)][2][KeyOf(j)])

Selected(i, j) == submission[2][KeyOf(i)][2][KeyOf(j)][2]

SelectedCount(i, n) == Cardinality({j \in 1..n : Selected(i, j)})

OptionsOf(f) == Get(f, "fields")[2]

\* every option of the field that is mandatory is selected
MandatoryOptionsSelected(i, f) ==
    \A j \in 1..Len(OptionsOf(f)) :
        Get(OptionsOf(f)[j], "mandatory") = B(TRUE) => Selected(i, j)

(***************************************************************************)
(* C1.  Radio cardinality.                                                 *)
(***************************************************************************)
\* the i-th field of an accepted configuration is a Radio with n >= 1
\* options and the submission gives a boolean for each of them
C1_Case(i) ==
    /\ pc = "submitted"
    /\ Accepted
    /\ i \in FieldIndexes
    /\ KindOf(DocFields[i]) = "radio"
    /\ Len(OptionsOf(DocFields[i])) >= 1
    /\ FullBoolMapping(i, Len(OptionsOf(DocFields[i])))

\* C1 as claimed: a Radio submission with a boolean for each option is
\* rejected with an error at the Radio's key when 0 or 2 or more options
\* are selected, and accepted when exactly one is, whatever the options.
C1_Original ==
    \A i \in FieldIndexes :
        C1_Case(i) =>
            LET n == Len(OptionsOf(DocFields[i]))
            IN  IF SelectedCount(i, n) = 1
                THEN ErrorsUnder(subErrors, <<KeyOf(i)>>) = {}
                ELSE Err(<<KeyOf(i)>>, "type") \in subErrors

\* C1 amended: a Radio submission with a boolean for each option is
\* rejected with an error at the Radio's own key when 0 or 2 or more
\* options are selected; when exactly one is selected it is accepted if
\* and only if no option whose mandatory is true is left unselected, and
\* otherwise the errors are mandatory errors at the unselected options.
C1_RadioCardinality ==
    \A i \in FieldIndexes :
        C1_Case(i) =>
            LET n == Len(OptionsOf(DocFields[i]))
                f == DocFields[i]
            IN  IF SelectedCount(i, n) = 1
                THEN /\ ErrorsUnder(subErrors, <<KeyOf(i)>>) =
                            {Err(<<KeyOf(i), KeyOf(j)>>, "mandatory") :
                                j \in {x \in 1..n :
                                          /\ Get(OptionsOf(f)[x], "mandatory") = B(TRUE)
                                          /\ ~Selected(i, x)}}
                     /\ (ErrorsUnder(subErrors, <<KeyOf(i)>>) = {})
                            <=> MandatoryOptionsSelected(i, f)
                ELSE ErrorsUnder(subErrors, <<KeyOf(i)>>) = {Err(<<KeyOf(i)>>, "type")}

\* a Radio of three options, the mandatory one selected alone, is accepted
C1_Witness ==
    /\ C1_Case(1)
    /\ Len(OptionsOf(DocFields[1])) = 3
    /\ Get(OptionsOf(DocFields[1])[2], "mandatory") = B(TRUE)
    /\ SelectedCount(1, 3) = 1
    /\ Selected(1, 2)
    /\ subErrors = {}

(***************************************************************************)
(* C2.  Exact key-set enforcement.                                         *)
(***************************************************************************)
\* the keys the data model gives each kind legal in a configuration
RequiredKeys(kind) ==
    CASE kind = "email" -> {"type", "title", "description", "regex", "hint"}
      [] kind = "option" -> {"type", "title", "description", "mandatory"}
      [] kind = "radio" -> {"type", "title", "description", "fields"}

\* the values a removed key may have had
RestoreValues(k) ==
    CASE k = "type" -> {S("email"), S("option"), S("radio")}
      [] k = "title" -> {S("T"), S("A")}
      [] k = "description" -> {S("D"), S("")}
      [] k = "regex" -> {S(r) : r \in Patterns}
      [] k = "hint" -> {S("H")}
      [] k = "mandatory" -> {B(TRUE), B(FALSE)}
      [] k = "fields" -> {L(OptionList(f)) : f \in FlagSeqs(MaxOptions)}

\* g is an accepted field object of some kind with one of its keys removed
OneKeyRemoved(g) ==
    /\ IsDict(g)
    /\ \E kind \in TopLevelTypes :
       \E k \in RequiredKeys(kind) \ Range(Keys(g)) :
       \E j \in 0..Len(g[2]) :
       \E v \in RestoreValues(k) :
           /\ ConfigTypeMatches(kind, InsertAt(g, j, Pair(k, v)))

\* g is an accepted field object of some kind with one key added that is
\* not in the kind's required key set
OneKeyAdded(g) ==
    /\ IsDict(g)
    /\ \E kind \in TopLevelTypes :
       \E j \in 1..Len(g[2]) :
           /\ g[2][j][1] \notin RequiredKeys(kind)
           /\ ConfigTypeMatches(kind, RemoveAt(g, j))

\* C2: a field object that is an accepted email, option or radio field
\* with one key removed, or with one key outside the kind's required key
\* set added, is rejected by the configuration validator.
C2_ExactKeySet ==
    pc = "validated" =>
        \A i \in FieldIndexes :
            (OneKeyRemoved(DocFields[i]) \/ OneKeyAdded(DocFields[i])) => FieldRejected(i)

\* a Radio given an extra key after its own four is rejected
C2_Witness ==
    /\ pc = "validated"
    /\ HasFieldList
    /\ Len(DocFields) = 1
    /\ OneKeyAdded(DocFields[1])
    /\ KindOf(DocFields[1]) = "radio"
    /\ Len(DocFields[1][2]) = 5
    /\ Keys(RemoveAt(DocFields[1], 5)) = RADIO_KEYS
    /\ FieldRejected(1)

(***************************************************************************)
(* C3.  Order-insensitive key matching.                                    *)
(***************************************************************************)
\* the object with its keys brought into the given order, when its key set
\* is the one given
Reordered(g, keys) ==
    IF IsDict(g) /\ Len(g[2]) = Len(keys) /\ Range(Keys(g)) = Range(keys)
    THEN D([i \in 1..Len(keys) |-> Pair(keys[i], Get(g, keys[i]))])
    ELSE g

\* a permutation of the keys of g, and of the keys of the options nested in
\* it when it is a Radio
Canonical(g) ==
    LET h == IF KindOf(g) = "email" THEN Reordered(g, EMAIL_KEYS)
             ELSE IF KindOf(g) = "option" THEN Reordered(g, OPTION_KEYS)
             ELSE IF KindOf(g) = "radio" THEN Reordered(g, RADIO_KEYS)
             ELSE g
    IN  IF KindOf(h) = "radio" /\ HasKey(h, "fields") /\ IsList(Get(h, "fields"))
        THEN SetKey(h, "fields",
                    L([j \in 1..Len(OptionsOf(h)) |->
                          IF KindOf(OptionsOf(h)[j]) = "option"
                          THEN Reordered(OptionsOf(h)[j], OPTION_KEYS)
                          ELSE OptionsOf(h)[j]]))
        ELSE h

\* C3 as claimed: the verdict on a field does not depend on the order of
\* its keys or of the keys of its nested options: a field some reordering
\* of which is accepted is accepted.
C3_OrderInsensitive ==
    pc = "validated" =>
        \A i \in FieldIndexes :
            FieldTypeOK(Canonical(DocFields[i])) => ~FieldRejected(i)

(***************************************************************************)
(* C4.  Compiler totality and shape.                                       *)
(***************************************************************************)
RuleKeys == {"min_chars", "max_chars", "min_select", "max_select", "mandatory", "regex"}

\* the record is built from the field alone: its type, the rules the field
\* defines with the field's values, a nested schema map keyed "1".."m"
\* exactly when the field has a list of m subfields, and nothing else
RECURSIVE RecordMirrors(_, _)
RecordMirrors(rec, f) ==
    /\ DOMAIN rec \subseteq {"type", "schema"} \cup RuleKeys
    /\ "type" \in DOMAIN rec
    /\ rec["type"] = Get(f, "type")
    /\ \A r \in RuleKeys :
           /\ r \in DOMAIN rec <=> HasKey(f, r)
           /\ r \in DOMAIN rec => rec[r] = Get(f, r)
    /\ "schema" \in DOMAIN rec <=> HasKey(f, "fields")
    /\ "schema" \in DOMAIN rec =>
           /\ IsMap(rec["schema"])
           /\ DOMAIN rec["schema"][2] = {KeyOf(j) : j \in 1..Len(OptionsOf(f))}
           /\ \A j \in 1..Len(OptionsOf(f)) :
                  RecordMirrors(rec["schema"][2][KeyOf(j)], OptionsOf(f)[j])

\* C4: compiling an accepted configuration never raises, and the schema
\* has exactly the keys "1".."n" for the n fields, the record under str(i)
\* mirroring the i-th field: its type, the rules it defines, its nested
\* schema; title, description and hint never appear.
C4_CompilerMirrorsFields ==
    /\ (pc = "raised" /\ schema = Null) => ~Accepted
    /\ (pc \in {"compiled", "submitted"} /\ Accepted) =>
           /\ IsMap(schema)
           /\ DOMAIN schema[2] = {KeyOf(i) : i \in 1..Len(DocFields)}
           /\ \A i \in 1..Len(DocFields) :
                  RecordMirrors(schema[2][KeyOf(i)], DocFields[i])

\* an email field followed by a radio of two options, compiled
C4_Witness ==
    /\ pc = "compiled"
    /\ Accepted
    /\ HasFieldList
    /\ Len(DocFields) = 2
    /\ KindOf(DocFields[1]) = "email"
    /\ KindOf(DocFields[2]) = "radio"
    /\ DOMAIN schema[2] = {"1", "2"}
    /\ DOMAIN schema[2]["1"] = {"type", "regex"}
    /\ DOMAIN schema[2]["2"] = {"type", "schema"}
    /\ DOMAIN schema[2]["2"]["schema"][2] = {"1", "2"}

(***************************************************************************)
(* C5.  The end-to-end example.                                            *)
(***************************************************************************)
C5_Configuration ==
    Configuration(L(<<Radio(<<Option("A", FALSE), Option("B", FALSE)>>)>>))

C5_IsExample ==
    /\ pc = "compiled"
    /\ doc = C5_Configuration
    /\ Get(DocFields[1], "title") = S("T")
    /\ Get(DocFields[1], "description") = S("D")
    /\ Get(OptionsOf(DocFields[1])[1], "title") = S("A")
    /\ Get(OptionsOf(DocFields[1])[2], "title") = S("B")

OptionRecordBare == [k \in {"type"} |-> S("option")]

OptionRecord(mandatory) ==
    [k \in {"type", "mandatory"} |-> IF k = "type" THEN S("option") ELSE B(mandatory)]

RadioRecord(sub) ==
    [k \in {"type", "schema"} |-> IF k = "type" THEN S("radio") ELSE M(sub)]

\* C5 as claimed: the example compiles to
\* {"1": {type: radio, schema: {"1": {type: option}, "2": {type: option}}}}.
C5_Original ==
    C5_IsExample =>
        schema = M([k \in {"1"} |->
                      RadioRecord([j \in {"1", "2"} |-> OptionRecordBare])])

\* C5 amended: the example compiles to {"1": {type: radio, schema:
\* {"1": {type: option, mandatory: false}, "2": {type: option, mandatory:
\* false}}}}: each option record also carries the option's mandatory rule,
\* and no record has any other key.
C5_ExampleSchema ==
    C5_IsExample =>
        schema = M([k \in {"1"} |->
                      RadioRecord([j \in {"1", "2"} |-> OptionRecord(FALSE)])])

C5_Witness ==
    /\ C5_IsExample
    /\ schema[2]["1"]["schema"][2]["2"]["mandatory"] = B(FALSE)

(***************************************************************************)
(* C6.  Kinds legal at the top level.                                      *)
(***************************************************************************)
\* a well-formed email, option or radio field of the data model: the
\* kind's exact key set and every value of its type and within its bound
WellFormedOption(f) ==
    /\ IsDict(f)
    /\ Range(Keys(f)) = RequiredKeys("option")
    /\ Get(f, "type") = S("option")
    /\ BoundedStr(Get(f, "title"), 100)
    /\ BoundedStr(Get(f, "description"), 1000)
    /\ IsBool(Get(f, "mandatory"))

WellFormedEmail(f) ==
    /\ IsDict(f)
    /\ Range(Keys(f)) = RequiredKeys("email")
    /\ Get(f, "type") = S("email")
    /\ BoundedStr(Get(f, "title"), 100)
    /\ BoundedStr(Get(f, "description"), 1000)
    /\ BoundedStr(Get(f, "regex"), 100)
    /\ Get(f, "regex")[2] # "("
    /\ BoundedStr(Get(f, "hint"), 100)

WellFormedRadio(f) ==
    /\ IsDict(f)
    /\ Range(Keys(f)) = RequiredKeys("radio")
    /\ Get(f, "type") = S("radio")
    /\ BoundedStr(Get(f, "title"), 100)
    /\ BoundedStr(Get(f, "description"), 1000)
    /\ IsList(Get(f, "fields"))
    /\ \A j \in 1..Len(OptionsOf(f)) : WellFormedOption(OptionsOf(f)[j])

WellFormedTopLevel(f) == WellFormedEmail(f) \/ WellFormedOption(f) \/ WellFormedRadio(f)

\* C6: a configuration is accepted only if every element of its field list
\* is a well-formed email, option or radio field; an element of kind text or
\* selection or with an unknown discriminant is rejected; an empty field list
\* is accepted.
C6_TopLevelKinds ==
    pc = "validated" =>
        /\ Accepted =>
               /\ HasFieldList
               /\ \A i \in FieldIndexes : WellFormedTopLevel(DocFields[i])
        /\ \A i \in FieldIndexes :
               KindOf(DocFields[i]) \notin {"email", "option", "radio"} => FieldRejected(i)
        /\ doc = Configuration(L(<<>>)) => Accepted

\* a Text field at the top level is rejected
C6_Witness ==
    /\ pc = "validated"
    /\ HasFieldList
    /\ Len(DocFields) = 1
    /\ DocFields[1] = Text(2, 5)
    /\ cfgErrors = {Err(<<"fields", 0>>, "type")}

(***************************************************************************)
(* C7.  Text and Selection under a Radio.                                  *)
(***************************************************************************)
WellFormedText(f) ==
    /\ IsDict(f)
    /\ Keys(f) = <<"type", "title", "description", "min_chars", "max_chars">>
    /\ Get(f, "type") = S("text")
    /\ BoundedStr(Get(f, "title"), 100)
    /\ BoundedStr(Get(f, "description"), 1000)
    /\ IsInt(Get(f, "min_chars")) /\ Get(f, "min_chars")[2] \in 0..10000
    /\ IsInt(Get(f, "max_chars")) /\ Get(f, "max_chars")[2] \in 0..10000

WellFormedSelection(f) ==
    /\ IsDict(f)
    /\ Keys(f) = <<"type", "title", "description", "min_select", "max_select", "fields">>
    /\ Get(f, "type") = S("selection")
    /\ BoundedStr(Get(f, "title"), 100)
    /\ BoundedStr(Get(f, "description"), 1000)
    /\ IsInt(Get(f, "min_select")) /\ Get(f, "min_select")[2] >= 0
    /\ IsInt(Get(f, "max_select")) /\ Get(f, "max_select")[2] >= 0
    /\ IsList(Get(f, "fields"))
    /\ \A j \in 1..Len(OptionsOf(f)) : ConfigValidateTypeOption(OptionsOf(f)[j])

\* the i-th field is a Radio, in order but for its subfields, one of which
\* is a well-formed Text or Selection field
C7_Case(i) ==
    /\ pc = "validated"
    /\ i \in FieldIndexes
    /\ ValidateConfiguration(SetKey(doc, "fields", L(<<>>))) = {}
    /\ IsDict(DocFields[i])
    /\ Keys(DocFields[i]) = RADIO_KEYS
    /\ ConfigValidateTypeRadio(SetKey(DocFields[i], "fields", L(<<>>)))
    /\ IsList(Get(DocFields[i], "fields"))
    /\ \E j \in 1..Len(OptionsOf(DocFields[i])) :
           \/ WellFormedText(OptionsOf(DocFields[i])[j])
           \/ WellFormedSelection(OptionsOf(DocFields[i])[j])

\* C7 as claimed: a configuration, otherwise valid, with a Radio whose
\* subfields are options and well-formed Text or Selection fields is
\* accepted.
C7_Original ==
    \A i \in FieldIndexes :
        (/\ C7_Case(i)
         /\ \A k \in FieldIndexes \ {i} : FieldTypeOK(DocFields[k])
         /\ \A j \in 1..Len(OptionsOf(DocFields[i])) :
                \/ WellFormedText(OptionsOf(DocFields[i])[j])
                \/ WellFormedSelection(OptionsOf(DocFields[i])[j])
                \/ ConfigValidateTypeOption(OptionsOf(DocFields[i])[j]))
        => Accepted

\* C7 amended: Text and Selection fields are not legal nested inside a
\* Radio: a configuration with a Radio whose field list contains a
\* well-formed Text or Selection field is rejected, with an error at the
\* Radio's index in the top-level field list.
C7_TextSelectionRejectedInRadio ==
    \A i \in FieldIndexes : C7_Case(i) => FieldRejected(i)

\* a Radio holding an option and a Selection is rejected
C7_Witness ==
    /\ C7_Case(1)
    /\ Len(OptionsOf(DocFields[1])) = 2
    /\ ConfigValidateTypeOption(OptionsOf(DocFields[1])[1])
    /\ WellFormedSelection(OptionsOf(DocFields[1])[2])
    /\ cfgErrors = {Err(<<"fields", 0>>, "type")}

(***************************************************************************)
(* C8.  Selection bounds.                                                  *)
(***************************************************************************)
\* the i-th field is a well-formed Selection and the submission gives a
\* boolean for each of its options
C8_Case(i) ==
    /\ pc = "submitted"
    /\ i \in FieldIndexes
    /\ WellFormedSelection(DocFields[i])
    /\ FullBoolMapping(i, Len(OptionsOf(DocFields[i])))

WithinSelectBounds(i) ==
    LET f == DocFields[i]
        k == SelectedCount(i, Len(OptionsOf(f)))
    IN  Get(f, "min_select")[2] <= k /\ k <= Get(f, "max_select")[2]

\* the value submitted for the i-th field is a mapping with an entry that
\* is not a boolean
NonBooleanEntry(i) ==
    /\ pc = "submitted"
    /\ i \in FieldIndexes
    /\ WellFormedSelection(DocFields[i])
    /\ KeyOf(i) \in DOMAIN submission[2]
    /\ IsMap(submission[2][KeyOf(i)])
    /\ \E k \in DOMAIN submission[2][KeyOf(i)][2] : ~IsBool(submission[2][KeyOf(i)][2][k])

\* C8 as claimed: a Selection submission with a boolean for each option is
\* accepted if and only if the number of selected options lies within
\* [min_select, max_select]; a mapping with a non-boolean entry is rejected.
C8_Original ==
    \A i \in FieldIndexes :
        /\ C8_Case(i) =>
               (ErrorsUnder(subErrors, <<KeyOf(i)>>) = {} <=> WithinSelectBounds(i))
        /\ NonBooleanEntry(i) => Err(<<KeyOf(i)>>, "type") \in subErrors

\* C8 amended: a Selection submission with a boolean for each option is
\* accepted if and only if the number of selected options lies within
\* [min_select, max_select] and no option whose mandatory is true is left
\* unselected; fewer than min_select is reported as min_select, more than
\* max_select as max_select; a mapping with a non-boolean entry is rejected.
C8_SelectionBounds ==
    \A i \in FieldIndexes :
        /\ C8_Case(i) =>
               LET f == DocFields[i]
                   k == SelectedCount(i, Len(OptionsOf(f)))
               IN  /\ ErrorsUnder(subErrors, <<KeyOf(i)>>) = {}
                          <=> (WithinSelectBounds(i) /\ MandatoryOptionsSelected(i, f))
                   /\ Err(<<KeyOf(i)>>, "min_select") \in subErrors
                          <=> k < Get(f, "min_select")[2]
                   /\ Err(<<KeyOf(i)>>, "max_select") \in subErrors
                          <=> k > Get(f, "max_select")[2]
        /\ NonBooleanEntry(i) => Err(<<KeyOf(i)>>, "type") \in subErrors

\* min_select = 1, max_select = 2 over three options, two selected: accepted
C8_Witness ==
    /\ C8_Case(1)
    /\ Get(DocFields[1], "min_select") = I(1)
    /\ Get(DocFields[1], "max_select") = I(2)
    /\ Len(OptionsOf(DocFields[1])) = 3
    /\ SelectedCount(1, 3) = 2
    /\ subErrors = {}

(***************************************************************************)
(* C9.  Text length bounds.                                                *)
(***************************************************************************)
\* the i-th field is a well-formed Text and the value submitted is a string
C9_Case(i) ==
    /\ pc = "submitted"
    /\ i \in FieldIndexes
    /\ WellFormedText(DocFields[i])
    /\ KeyOf(i) \in DOMAIN submission[2]
    /\ IsStr(submission[2][KeyOf(i)])

\* C9: a string submitted for a Text field is accepted if and only if its
\* length lies within [min_chars, max_chars]; a shorter string is reported
\* as min_chars, a longer one as max_chars, and both are reported when both
\* bounds are violated.
C9_TextLengthBounds ==
    \A i \in FieldIndexes :
        C9_Case(i) =>
            LET f == DocFields[i]
                n == Len(submission[2][KeyOf(i)][2])
            IN  ErrorsUnder(subErrors, <<KeyOf(i)>>) =
                    (IF n < Get(f, "min_chars")[2]
                     THEN {Err(<<KeyOf(i)>>, "min_chars")} ELSE {})
                    \cup (IF n > Get(f, "max_chars")[2]
                          THEN {Err(<<KeyOf(i)>>, "max_chars")} ELSE {})

\* min_chars = 2, max_chars = 5 and a string of six characters: max_chars
C9_Witness ==
    /\ C9_Case(1)
    /\ DocFields[1] = Text(2, 5)
    /\ Len(submission[2]["1"][2]) = 6
    /\ subErrors = {Err(<<"1">>, "max_chars")}

(***************************************************************************)
(* C10.  Paths of the configuration errors.                                *)
(***************************************************************************)
\* the i-th field is a Radio in order but for its j-th subfield, which is
\* not a well-formed Option
MalformedNestedOption(i, j) ==
    /\ pc = "validated"
    /\ i \in FieldIndexes
    /\ IsDict(DocFields[i])
    /\ Keys(DocFields[i]) = RADIO_KEYS
    /\ ConfigValidateTypeRadio(SetKey(DocFields[i], "fields", L(<<>>)))
    /\ IsList(Get(DocFields[i], "fields"))
    /\ j \in 1..Len(OptionsOf(DocFields[i]))
    /\ ~ConfigValidateTypeOption(OptionsOf(DocFields[i])[j])

\* C10 as claimed: a malformed Option at index j of the Radio at index i is
\* reported at the path fields[i].fields[j], one reason per malformed
\* element.
C10_NestedErrorPaths ==
    /\ pc = "validated" =>
           \A i \in FieldIndexes : ~FieldTypeOK(DocFields[i]) => FieldRejected(i)
    /\ \A i \in FieldIndexes :
           \A j \in 1..MaxFields + MaxOptions :
               MalformedNestedOption(i, j) =>
                   <<"fields", i - 1, "fields", j - 1>> \in ErrorPaths(cfgErrors)

(***************************************************************************)
(* C11.  The mandatory rule.                                               *)
(***************************************************************************)
\* the record is a compiled Option leaf
OptionLeaf(rec) ==
    /\ rec["type"] = S("option")
    /\ "mandatory" \in DOMAIN rec
    /\ IsBool(rec["mandatory"])

SubmittedKeys == IF pc = "submitted" THEN DOMAIN schema[2] \cap DOMAIN submission[2] ELSE {}

\* the keys of the top-level Option leaves given a boolean
TopLevelLeaves ==
    {k \in SubmittedKeys : OptionLeaf(schema[2][k]) /\ IsBool(submission[2][k])}

\* the Radio fields given a mapping
RadioKeys ==
    {k \in SubmittedKeys : /\ schema[2][k]["type"] = S("radio")
                           /\ "schema" \in DOMAIN schema[2][k]
                           /\ IsMap(submission[2][k])}

\* the keys of the Option leaves under the Radio at k given a boolean
NestedLeaves(k) ==
    {j \in DOMAIN schema[2][k]["schema"][2] \cap DOMAIN submission[2][k][2] :
        /\ OptionLeaf(schema[2][k]["schema"][2][j])
        /\ IsBool(submission[2][k][2][j])}

\* the fields carrying mandatory: true that are given a string
MandatoryStringFields ==
    {k \in SubmittedKeys : /\ "mandatory" \in DOMAIN schema[2][k]
                           /\ schema[2][k]["mandatory"] = B(TRUE)
                           /\ IsStr(submission[2][k])}

\* the value given to the Radio at k passes the Radio's own type check
RadioValueWellTyped(k) ==
    /\ \A j \in DOMAIN submission[2][k][2] : IsBool(submission[2][k][2][j])
    /\ Cardinality({j \in DOMAIN submission[2][k][2] : submission[2][k][2][j][2]}) = 1

\* C11 as claimed, for an accepted configuration: for an Option leaf, at
\* the top level or under a Radio, given a boolean v, a mandatory error is reported for the leaf exactly
\* when its mandatory is true and v is false; for a string under a true
\* mandatory rule (of a field whose type admits a string) the error is
\* reported exactly when the string is empty.
C11_Original ==
    Accepted =>
        /\ \A k \in TopLevelLeaves :
               Err(<<k>>, "mandatory") \in subErrors
                   <=> (schema[2][k]["mandatory"][2] /\ ~submission[2][k][2])
        /\ \A k \in RadioKeys : \A j \in NestedLeaves(k) :
               Err(<<k, j>>, "mandatory") \in subErrors
                   <=> (schema[2][k]["schema"][2][j]["mandatory"][2] /\ ~submission[2][k][2][j][2])
        /\ \A k \in MandatoryStringFields :
               schema[2][k]["type"] \in {S("email"), S("text")} =>
                   (Err(<<k>>, "mandatory") \in subErrors <=> submission[2][k][2] = "")

\* C11 amended: for a top-level Option leaf given a boolean v, a mandatory
\* error is reported for the leaf exactly when its mandatory is true and v
\* is false.  For an Option leaf under a Radio the same holds provided the
\* Radio's value passes the Radio's type check (every entry a boolean,
\* exactly one true); when it does not, only the Radio's type error is
\* reported and no mandatory error for any leaf.  For a string under a
\* true mandatory rule the error is reported exactly when the string is
\* empty, provided the field's type admits a string (email, text); a string
\* given to an Option leaf is a type error and no mandatory error.
C11_MandatoryRule ==
    /\ \A k \in TopLevelLeaves :
           Err(<<k>>, "mandatory") \in subErrors
               <=> (schema[2][k]["mandatory"][2] /\ ~submission[2][k][2])
    /\ \A k \in RadioKeys : \A j \in NestedLeaves(k) :
           Err(<<k, j>>, "mandatory") \in subErrors
               <=> /\ RadioValueWellTyped(k)
                   /\ schema[2][k]["schema"][2][j]["mandatory"][2]
                   /\ ~submission[2][k][2][j][2]
    /\ \A k \in RadioKeys :
           ~RadioValueWellTyped(k) =>
               ErrorsUnder(subErrors, <<k>>) = {Err(<<k>>, "type")}
    /\ \A k \in MandatoryStringFields :
           Err(<<k>>, "mandatory") \in subErrors
               <=> /\ submission[2][k][2] = ""
                   /\ schema[2][k]["type"] \in {S("email"), S("text")}

\* under a Radio with one option selected, a mandatory option left false
\* is reported at the option's own key
C11_Witness ==
    /\ pc = "submitted"
    /\ Accepted
    /\ "1" \in RadioKeys
    /\ RadioValueWellTyped("1")
    /\ "2" \in NestedLeaves("1")
    /\ schema[2]["1"]["schema"][2]["2"]["mandatory"] = B(TRUE)
    /\ submission[2]["1"][2]["2"] = B(FALSE)
    /\ Err(<<"1", "2">>, "mandatory") \in subErrors

====
